---- MODULE Spec2Model ----
(***************************************************************************)
(* szurubooru: user accounts (func/users.py) and the per-user tag          *)
(* blocklist.  A string is the sequence of its characters (of its words,   *)
(* for a rank), so that lower(), strip() and the regular expressions are   *)
(* computed.  A call records its arguments and its outcome in `last`.      *)
(* Each specification starts from a database the program can hold and      *)
(* runs the requests of one part: SpecBlocklist, SpecNames, SpecRank,      *)
(* SpecAccount, SpecSerialize, SpecPosts.                                  *)
(***************************************************************************)
EXTENDS Integers, Sequences, FiniteSets, TLC

VARIABLES
    users,      \* table "user": sequence of rows, user_id = position
    pending,    \* the model.User() under construction in the current request, or NoUser
    files,      \* the file store: set of paths that resolve to a file
    blocklist,  \* table "user_tag_blocklist": sequence of rows [user_id, tag_id]
    config,     \* config.config, fixed for a run
    posts,      \* table "post": post_id -> set of tag ids
    last        \* what the last call was given and what it returned or raised

vars == <<users, pending, files, blocklist, config, posts, last>>

\* ------------------------------------------------------------------ bounds
MaxTargetLen == 2
MaxRows == 2
MaxUsers == 2
NameColumnSize == 3
EmailColumnSize == 4
PasswordMinLen == 2

\* ------------------------------------------------------------ generic helpers
Range(s) == {s[i] : i \in 1..Len(s)}

SeqsUpTo(S, n) == UNION {[1..k -> S] : k \in 0..n}

\* list.remove(x): drops the first occurrence of x
RECURSIVE RemoveFirst(_, _)
RemoveFirst(s, x) ==
    IF s = <<>> THEN <<>>
    ELSE IF Head(s) = x THEN Tail(s)
    ELSE <<Head(s)>> \o RemoveFirst(Tail(s), x)

\* the positions of a sequence, in order
Positions(s) == [i \in 1..Len(s) |-> i]

\* a finite set of integers as an ascending sequence
RECURSIVE SortedSeq(_)
SortedSeq(S) ==
    IF S = {} THEN <<>>
    ELSE LET m == CHOOSE x \in S : \A y \in S : x <= y
         IN <<m>> \o SortedSeq(S \ {m})

\* ------------------------------------------------------------------- tags
TagIds == {1, 2, 3}

TagName(t) == <<"tag", t>>

\* tags.get_tags_by_exact_names: the tags carrying one of the names, in id order
get_tags_by_exact_names(names) ==
    SortedSeq({t \in TagIds : TagName(t) \in Range(names)})

\* ----------------------------------------------------------- the blocklist
UserTagBlocklist(user_id, tag_id) == [user_id |-> user_id, tag_id |-> tag_id]

\* the positions of the rows of the user, in table order
get_blocklist_from_user(bl, user_id) ==
    SelectSeq(Positions(bl), LAMBDA i : bl[i].user_id = user_id)

\* the removal loop running over range(len(...) - 1): the last entry is never examined
RemoveLoop_SkipLast(i, original_previous_ids, previous_tags, new_ids, to_remove, previous_ids) ==
    LET gone == {k \in 1..Len(original_previous_ids) :
                    k < Len(original_previous_ids)
                    /\ original_previous_ids[k] \notin Range(new_ids)}
    IN [to_remove |-> SelectSeq(previous_tags,
                                LAMBDA pos : \E k \in gone : previous_tags[k] = pos),
        previous_ids |-> previous_ids]

\* "Remove tags no longer in the new list": returns [to_remove, previous_ids]
RECURSIVE RemoveLoop(_, _, _, _, _, _)
RemoveLoop(i, original_previous_ids, previous_tags, new_ids, to_remove, previous_ids) ==
    IF i > Len(original_previous_ids)
    THEN [to_remove |-> to_remove, previous_ids |-> previous_ids]
    ELSE LET old_tag_id == original_previous_ids[i] IN
         IF old_tag_id \notin Range(new_ids)
         THEN RemoveLoop(i + 1, original_previous_ids, previous_tags, new_ids,
                         Append(to_remove, previous_tags[i]),
                         RemoveFirst(previous_ids, old_tag_id))
         ELSE RemoveLoop(i + 1, original_previous_ids, previous_tags, new_ids,
                         to_remove, previous_ids)

\* the addition loop inserting at the front: additions come out in reverse order
RECURSIVE AddLoop_Prepend(_, _, _, _)
AddLoop_Prepend(user_id, new_ids, previous_ids, to_add) ==
    IF new_ids = <<>> THEN to_add
    ELSE AddLoop_Prepend(user_id, Tail(new_ids), previous_ids,
                 IF Head(new_ids) \notin Range(previous_ids)
                 THEN <<UserTagBlocklist(user_id, Head(new_ids))>> \o to_add
                 ELSE to_add)

\* "Add tags not yet in the original list"
RECURSIVE AddLoop(_, _, _, _)
AddLoop(user_id, new_ids, previous_ids, to_add) ==
    IF new_ids = <<>> THEN to_add
    ELSE AddLoop(user_id, Tail(new_ids), previous_ids,
                 IF Head(new_ids) \notin Range(previous_ids)
                 THEN Append(to_add, UserTagBlocklist(user_id, Head(new_ids)))
                 ELSE to_add)

\* to_add: rows to insert; to_remove: positions of the persisted rows to delete
update_user_blocklist(bl, cfg, user_id, new_blocklist_tags) ==
    IF new_blocklist_tags.is_none
    THEN [to_add |->
            IF cfg.has_default_tag_blocklist
            THEN LET dflt == get_tags_by_exact_names(cfg.default_tag_blocklist)
                 IN [i \in 1..Len(dflt) |-> UserTagBlocklist(user_id, dflt[i])]
            ELSE <<>>,
          to_remove |-> <<>>]
    ELSE LET new_blocklist_ids == new_blocklist_tags.tags
             previous_blocklist_tags == get_blocklist_from_user(bl, user_id)
             previous_blocklist_ids ==
                 [i \in 1..Len(previous_blocklist_tags) |->
                     bl[previous_blocklist_tags[i]].tag_id]
             removed == RemoveLoop(1, previous_blocklist_ids, previous_blocklist_tags,
                                   new_blocklist_ids, <<>>, previous_blocklist_ids)
         IN [to_add |-> AddLoop(user_id, new_blocklist_ids, removed.previous_ids, <<>>),
             to_remove |-> removed.to_remove]

\* the rows at the given positions
Rows(bl, positions) == [i \in 1..Len(positions) |-> bl[positions[i]]]

\* the caller's half: delete the removals, insert the additions
ApplyPlan(bl, plan) ==
    SelectSeq([i \in 1..Len(bl) |-> [pos |-> i, row |-> bl[i]]],
              LAMBDA e : e.pos \notin Range(plan.to_remove))

ApplyPlanRows(bl, plan) ==
    LET kept == ApplyPlan(bl, plan)
    IN [i \in 1..Len(kept) |-> kept[i].row] \o plan.to_add

\* Optional[List[model.Tag]]: None, or a list of tags (by id)
NoneList == [is_none |-> TRUE, tags |-> <<>>]
SomeList(tags) == [is_none |-> FALSE, tags |-> tags]

Targets == {SomeList(t) : t \in SeqsUpTo(TagIds, MaxTargetLen)}

\* ------------------------------------------------------------- strings
\* a string is the sequence of its characters; " " stands for whitespace
Whitespace == {" "}

RECURSIVE lstrip(_)
lstrip(s) == IF s # <<>> /\ Head(s) \in Whitespace THEN lstrip(Tail(s)) ELSE s

RECURSIVE rstrip(_)
rstrip(s) ==
    IF s # <<>> /\ s[Len(s)] \in Whitespace THEN rstrip(SubSeq(s, 1, Len(s) - 1)) ELSE s

\* str.strip()
strip(s) == rstrip(lstrip(s))

LowerChar(c) == CASE c = "A" -> "a" [] c = "B" -> "b" [] OTHER -> c

\* str.lower() and sa.func.lower
lower(s) == [i \in 1..Len(s) |-> LowerChar(s[i])]

\* Python values that are None, a bool or a str
NoneVal == [type |-> "NoneType", val |-> <<>>]
BoolVal(b) == [type |-> "bool", val |-> b]
StrVal(s) == [type |-> "str", val |-> s]

\* util.value_exceeds_column_size
value_exceeds_column_size(value, max_length) ==
    IF value = <<>> THEN FALSE ELSE Len(value) > max_length

\* config "user_name_regex": one or more characters of the name alphabet
NameChars == {"a", "A", "b", "B"}
MatchUserNameRegex(s) == Len(s) >= 1 /\ \A i \in 1..Len(s) : s[i] \in NameChars

\* config "password_regex": at least PasswordMinLen characters
MatchPasswordRegex(s) == Len(s) >= PasswordMinLen

\* util.is_valid_email: empty, or [^@]*@[^@]*\.[^@]*
is_valid_email(s) ==
    \/ s = <<>>
    \/ \E i \in 1..Len(s) :
        /\ s[i] = "@"
        /\ \A k \in 1..Len(s) : s[k] = "@" => k = i
        /\ \E j \in (i + 1)..Len(s) : s[j] = "."

\* ----------------------------------------------------------------- ranks
\* auth.RANK_MAP: rank -> rank name, in ascending order
RANK_MAP ==
    << <<"anonymous", "anonymous">>, <<"nobody", "nobody">>, <<"regular", "regular">>,
       <<"power", "power">>, <<"moderator", "moderator">>,
       <<"administrator", "administrator">> >>

RANK_ANONYMOUS == "anonymous"
RANK_NOBODY == "nobody"
RANK_ADMINISTRATOR == "administrator"

\* list(auth.RANK_MAP.values())
all_ranks == [i \in 1..Len(RANK_MAP) |-> RANK_MAP[i][2]]

\* list.index
IndexOf(seq, x) == CHOOSE i \in 1..Len(seq) : seq[i] = x /\ \A k \in 1..(i - 1) : seq[k] # x

\* util.flip(auth.RANK_MAP).get(name, None); "" stands for None
flip_RANK_MAP_get(name) ==
    IF \E i \in 1..Len(RANK_MAP) : RANK_MAP[i][2] = name
    THEN RANK_MAP[CHOOSE i \in 1..Len(RANK_MAP) : RANK_MAP[i][2] = name][1]
    ELSE ""

\* auth.has_privilege: the rank is at least the rank the privilege is configured at
has_privilege(cfg, user, privilege_name) ==
    IndexOf(all_ranks, user.rank) >= IndexOf(all_ranks, cfg.privileges[privilege_name])

\* ------------------------------------------------------------ file store
\* the path built from the name as written
get_avatar_path_NoLower(user_name) == <<"avatars/">> \o user_name \o <<".png">>

get_avatar_path(user_name) == <<"avatars/">> \o lower(user_name) \o <<".png">>

files_has(fs, path) == path \in fs
files_move(fs, source, target) == (fs \ {source}) \cup {target}
files_save(fs, path) == fs \cup {path}

\* ----------------------------------------------------------------- users
AVATAR_GRAVATAR == "gravatar"
AVATAR_MANUAL == "manual"

\* model.User(): nothing set yet; user_id 0 stands for None
NewUser ==
    [user_id |-> 0, name |-> <<>>, password_salt |-> "", password_hash |-> <<>>,
     password_revision |-> 0, email |-> NoneVal, rank |-> "", avatar_style |-> ""]

\* what a call leaves behind: the exception raised ("" for none), the user object
\* and the file store
Outcome(raised, user, fs) == [raised |-> raised, user |-> user, files |-> fs]

get_user_count(db) == Len(db)

\* the rows whose lower(name) equals lower(name)
try_get_user_by_name_ExactCase(db, name) ==
    {i \in 1..Len(db) : db[i].name = name}

try_get_user_by_name(db, name) ==
    {i \in 1..Len(db) : lower(db[i].name) = lower(name)}

update_user_name(db, fs, user, name) ==
    LET stripped == strip(name)
        found == try_get_user_by_name(db, stripped)
    IN IF name = <<>> THEN Outcome("InvalidUserNameError", user, fs)
       ELSE IF value_exceeds_column_size(name, NameColumnSize)
       THEN Outcome("InvalidUserNameError", user, fs)
       ELSE IF ~MatchUserNameRegex(stripped)
       THEN Outcome("InvalidUserNameError", user, fs)
       ELSE IF Cardinality(found) > 1
       THEN Outcome("MultipleResultsFound", user, fs)
       ELSE IF found # {} /\ (CHOOSE i \in found : TRUE) # user.user_id
       THEN Outcome("UserAlreadyExistsError", user, fs)
       ELSE Outcome("", [user EXCEPT !.name = stripped],
                    IF user.name # <<>> /\ files_has(fs, get_avatar_path(user.name))
                    THEN files_move(fs, get_avatar_path(user.name),
                                    get_avatar_path(stripped))
                    ELSE fs)

\* auth.get_password_hash: a function of salt and password, and the revision
get_password_hash(salt, password) == <<<<salt, password>>, 3>>

\* salt: what auth.create_password() draws
update_user_password(fs, user, password, salt) ==
    IF password = <<>> THEN Outcome("InvalidPasswordError", user, fs)
    ELSE IF ~MatchPasswordRegex(password) THEN Outcome("InvalidPasswordError", user, fs)
    ELSE Outcome("", [user EXCEPT !.password_salt = salt,
                                  !.password_hash = get_password_hash(salt, password)[1],
                                  !.password_revision = get_password_hash(salt, password)[2]],
                 fs)

update_user_email(fs, user, email) ==
    LET stripped == strip(email)
    IN IF value_exceeds_column_size(stripped, EmailColumnSize)
       THEN Outcome("InvalidEmailError", user, fs)
       ELSE IF ~is_valid_email(stripped) THEN Outcome("InvalidEmailError", user, fs)
       ELSE Outcome("", [user EXCEPT !.email = IF stripped = <<>> THEN NoneVal
                                               ELSE StrVal(stripped)], fs)

\* the comparison of ranks alone, whatever the number of accounts
rank_is_too_high_NoBootstrap(db, auth_user, rank) ==
    IndexOf(all_ranks, auth_user.rank) < IndexOf(all_ranks, rank)

\* "Trying to set higher rank than your own."
rank_is_too_high(db, auth_user, rank) ==
    /\ IndexOf(all_ranks, auth_user.rank) < IndexOf(all_ranks, rank)
    /\ get_user_count(db) > 0

\* a rank string is a list of words, possibly padded with whitespace
update_user_rank(db, fs, user, rank, auth_user) ==
    LET stripped == strip(rank)
        found == IF Len(stripped) = 1 THEN flip_RANK_MAP_get(stripped[1]) ELSE ""
    IN IF rank = <<>> THEN Outcome("InvalidRankError", user, fs)
       ELSE IF found = "" THEN Outcome("InvalidRankError", user, fs)
       ELSE IF found \in {RANK_ANONYMOUS, RANK_NOBODY}
       THEN Outcome("InvalidRankError", user, fs)
       ELSE IF rank_is_too_high(db, auth_user, found)
       THEN Outcome("AuthError", user, fs)
       ELSE Outcome("", [user EXCEPT !.rank = found], fs)

\* avatar_content: <<>> stands for None and for empty bytes
update_user_avatar(fs, user, avatar_style, avatar_content) ==
    IF avatar_style = "gravatar"
    THEN Outcome("", [user EXCEPT !.avatar_style = AVATAR_GRAVATAR], fs)
    ELSE IF avatar_style = "manual"
    THEN LET styled == [user EXCEPT !.avatar_style = AVATAR_MANUAL]
             avatar_path == <<"avatars/">> \o lower(user.name) \o <<".png">>
         IN IF avatar_content = <<>>
            THEN IF files_has(fs, avatar_path) THEN Outcome("", styled, fs)
                 ELSE Outcome("InvalidAvatarError", styled, fs)
            ELSE Outcome("", styled, files_save(fs, avatar_path))
    ELSE Outcome("InvalidAvatarError", user, fs)

\* every account gets the configured default rank
initial_rank_AlwaysDefault(db, cfg) == flip_RANK_MAP_get(cfg.default_rank)

\* the rank of a new account
initial_rank(db, cfg) ==
    IF get_user_count(db) > 0
    THEN flip_RANK_MAP_get(cfg.default_rank)
    ELSE RANK_ADMINISTRATOR

create_user(db, cfg, fs, name, password, email, salt) ==
    LET named == update_user_name(db, fs, NewUser, name)
        keyed == update_user_password(named.files, named.user, password, salt)
        mailed == update_user_email(keyed.files, keyed.user, email)
    IN IF named.raised # "" THEN named
       ELSE IF keyed.raised # "" THEN keyed
       ELSE IF mailed.raised # "" THEN mailed
       ELSE Outcome("", [mailed.user EXCEPT !.rank = initial_rank(db, cfg),
                                            !.avatar_style = AVATAR_GRAVATAR],
                    mailed.files)

NoCall == [op |-> "none"]

\* ------------------------------------------------------ account requests
\* A request runs alone.  One that creates an account builds the user (pending),
\* may update it, and adds it to the session; the others update stored users.
NoUser == [NewUser EXCEPT !.user_id = -1]

AnonymousUser == [NewUser EXCEPT !.rank = RANK_ANONYMOUS]

\* the users a call may be about: 0 stands for the user under construction
CallTargets == IF pending # NoUser THEN {0} ELSE 1..Len(users)

TargetUser(t) == IF t = 0 THEN pending ELSE users[t]

Store(t, user) ==
    IF t = 0
    THEN pending' = user /\ users' = users
    ELSE users' = [users EXCEPT ![t] = user] /\ pending' = pending

Call(op, t, arg, actor, before, out) ==
    [op |-> op, target |-> t, arg |-> arg, actor |-> actor, raised |-> out.raised,
     before |-> before, after |-> out.user, files_before |-> files,
     count |-> get_user_count(users)]

CreateUser(name, password, email, salt) ==
    /\ pending = NoUser
    /\ Len(users) < MaxUsers
    /\ LET out == create_user(users, config, files, name, password, email, salt)
       IN /\ pending' = IF out.raised = "" THEN out.user ELSE NoUser
          /\ files' = out.files
          /\ last' = Call("createUser", 0, name, AnonymousUser, NewUser, out)
    /\ UNCHANGED <<users, blocklist, config, posts>>

\* ctx.session.add(user); ctx.session.commit()
AddUser ==
    /\ pending # NoUser
    /\ users' = Append(users, [pending EXCEPT !.user_id = Len(users) + 1])
    /\ pending' = NoUser
    /\ last' = [op |-> "commit"]
    /\ UNCHANGED <<files, blocklist, config, posts>>

SetName(t, name) ==
    /\ t \in CallTargets
    /\ LET out == update_user_name(users, files, TargetUser(t), name)
       IN /\ Store(t, out.user)
          /\ files' = out.files
          /\ last' = Call("setName", t, name, AnonymousUser, TargetUser(t), out)
    /\ UNCHANGED <<blocklist, config, posts>>

SetPassword(t, password, salt) ==
    /\ t \in CallTargets
    /\ LET out == update_user_password(files, TargetUser(t), password, salt)
       IN /\ Store(t, out.user)
          /\ files' = out.files
          /\ last' = Call("setPassword", t, password, AnonymousUser, TargetUser(t), out)
    /\ UNCHANGED <<blocklist, config, posts>>

SetEmail(t, email) ==
    /\ t \in CallTargets
    /\ LET out == update_user_email(files, TargetUser(t), email)
       IN /\ Store(t, out.user)
          /\ files' = out.files
          /\ last' = Call("setEmail", t, email, AnonymousUser, TargetUser(t), out)
    /\ UNCHANGED <<blocklist, config, posts>>

\* the acting user is a stored user, or nobody logged in (0)
SetRank(t, rank, actor) ==
    /\ t \in CallTargets
    /\ actor \in 0..Len(users)
    /\ LET auth_user == IF actor = 0 THEN AnonymousUser ELSE users[actor]
           out == update_user_rank(users, files, TargetUser(t), rank, auth_user)
       IN /\ Store(t, out.user)
          /\ files' = out.files
          /\ last' = Call("setRank", t, rank, auth_user, TargetUser(t), out)
    /\ UNCHANGED <<blocklist, config, posts>>

SetAvatar(t, style, content) ==
    /\ t \in CallTargets
    /\ LET out == update_user_avatar(files, TargetUser(t), style, content)
       IN /\ Store(t, out.user)
          /\ files' = out.files
          /\ last' = Call("setAvatar", t, <<style, content>>, AnonymousUser,
                          TargetUser(t), out)
    /\ UNCHANGED <<blocklist, config, posts>>

\* ------------------------------------------------------------ the inputs
Repeat(c, n) == [i \in 1..n |-> c]

GoodPassword == Repeat("p", PasswordMinLen)
PasswordInputs == {<<>>, Repeat("p", PasswordMinLen - 1), GoodPassword}
Salts == {"salt1", "salt2"}

GoodEmail == <<"@", ".">>
EmailInputs ==
    {<<>>, <<" ">>, <<"@">>, <<".", "@">>, GoodEmail, <<" ", "@", ".">>,
     <<"@", ".">> \o Repeat("x", EmailColumnSize - 1)}

NameInputs ==
    {<<>>, <<" ">>, <<"a">>, <<"A">>, <<"b">>, <<" ", "B">>, <<"a", "b">>,
     <<"a", " ", "b">>, Repeat("a", NameColumnSize + 1)}

AvatarStyles == {"gravatar", "manual", "bogus"}
AvatarContents == {<<>>, <<"png">>}

RankInputs ==
    {<<>>, <<"bogus">>, <<" ", "moderator", " ">>, <<"anonymous">>, <<"nobody">>,
     <<"regular">>, <<"administrator">>}

BaseConfig ==
    [has_default_tag_blocklist |-> FALSE, default_tag_blocklist |-> <<>>,
     default_tag_blocklist_for_anonymous |-> FALSE, default_rank |-> "regular",
     privileges |-> [p \in {"users:edit:any:email"} |-> "moderator"]]

InitEmpty ==
    /\ users = <<>>
    /\ pending = NoUser
    /\ files = {}
    /\ blocklist = <<>>
    /\ posts = <<>>
    /\ last = NoCall

\* ------------------------------------------------- names and avatar files
NamesCreateUser == \E n \in NameInputs : CreateUser(n, GoodPassword, <<>>, "salt1")
NamesSetName == \E t \in CallTargets : \E n \in NameInputs : SetName(t, n)
NamesSetAvatar ==
    \E t \in CallTargets : \E st \in AvatarStyles : \E c \in AvatarContents :
        SetAvatar(t, st, c)

InitNames == InitEmpty /\ config = BaseConfig

NextNames == NamesCreateUser \/ AddUser \/ NamesSetName \/ NamesSetAvatar

SpecNames == InitNames /\ [][NextNames]_vars

\* ------------------------------------------------------------------ ranks
RankNames == {<<"a">>, <<"b">>, <<"a", "b">>}

RankCreateUser == \E n \in RankNames : CreateUser(n, GoodPassword, <<>>, "salt1")
RankSetRank ==
    \E t \in CallTargets : \E r \in RankInputs : \E actor \in 0..Len(users) :
        SetRank(t, r, actor)

InitRank ==
    /\ InitEmpty
    /\ config \in {[BaseConfig EXCEPT !.default_rank = r] : r \in {"regular", "moderator"}}

NextRank == RankCreateUser \/ AddUser \/ RankSetRank

SpecRank == InitRank /\ [][NextRank]_vars

\* ------------------------------------------------ one account, every setter
StoredAccount ==
    [create_user(<<>>, BaseConfig, {}, <<"a">>, GoodPassword, <<>>, "salt1").user
        EXCEPT !.user_id = 1]

\* a second stored account
OtherAccount == [StoredAccount EXCEPT !.user_id = 2, !.name = <<"b">>, !.rank = "regular"]

AccountSetName == \E n \in {<<>>, <<"b">>, <<"a">>} : SetName(1, n)
AccountSetPassword == \E pw \in PasswordInputs : \E salt \in Salts : SetPassword(1, pw, salt)
AccountSetEmail == \E e \in EmailInputs : SetEmail(1, e)
AccountSetRank == \E r \in RankInputs : \E actor \in {0, 1} : SetRank(1, r, actor)
AccountSetAvatar ==
    \E st \in AvatarStyles : \E c \in AvatarContents : SetAvatar(1, st, c)

InitAccount ==
    /\ users = <<StoredAccount>>
    /\ pending = NoUser
    /\ files = {}
    /\ blocklist = <<>>
    /\ config = BaseConfig
    /\ posts = <<>>
    /\ last = NoCall

NextAccount ==
    \/ AccountSetName
    \/ AccountSetPassword
    \/ AccountSetEmail
    \/ AccountSetRank
    \/ AccountSetAvatar

SpecAccount == InitAccount /\ [][NextAccount]_vars

\* ---------------------------------------------------------- serialization
\* the privilege check left out: only the user and forced calls see the email
get_email_NoPrivilege(cfg, user, auth_user, force_show_email) ==
    IF ~force_show_email /\ auth_user.user_id # user.user_id
    THEN BoolVal(FALSE)
    ELSE user.email

get_email(cfg, user, auth_user, force_show_email) ==
    IF /\ ~force_show_email
       /\ auth_user.user_id # user.user_id
       /\ ~has_privilege(cfg, auth_user, "users:edit:any:email")
    THEN BoolVal(FALSE)
    ELSE user.email

\* UserSerializer(user, auth_user, force_show_email).serialize_email()
serialize_email(cfg, user, auth_user, force_show_email) ==
    get_email(cfg, user, auth_user, force_show_email)

\* the viewer is a stored user, or nobody logged in (0)
Serialize(subject, viewer, force_show_email) ==
    /\ subject \in 1..Len(users)
    /\ viewer \in 0..Len(users)
    /\ LET auth_user == IF viewer = 0 THEN AnonymousUser ELSE users[viewer]
       IN last' = [op |-> "serialize", subject |-> users[subject], viewer |-> auth_user,
                   force |-> force_show_email,
                   email |-> serialize_email(config, users[subject], auth_user,
                                             force_show_email)]
    /\ UNCHANGED <<users, pending, files, blocklist, config, posts>>

SerializeUser ==
    \E subject \in 1..Len(users) : \E viewer \in 0..Len(users) : \E force \in BOOLEAN :
        Serialize(subject, viewer, force)

StoredEmails == {NoneVal, StrVal(GoodEmail), StrVal(<<"x", "@", ".">>)}
StoredRanks == {"regular", "moderator", "administrator"}

\* two stored accounts, their e-mails and ranks as the setters can leave them
InitSerialize ==
    /\ \E e1, e2 \in StoredEmails : \E r1, r2 \in StoredRanks :
          users = <<[StoredAccount EXCEPT !.email = e1, !.rank = r1],
                    [OtherAccount EXCEPT !.email = e2, !.rank = r2]>>
    /\ pending = NoUser
    /\ files = {}
    /\ blocklist = <<>>
    /\ config \in {[BaseConfig EXCEPT !.privileges["users:edit:any:email"] = r] :
                      r \in {"anonymous", "moderator", "administrator"}}
    /\ posts = <<>>
    /\ last = NoCall

NextSerialize == SerializeUser

SpecSerialize == InitSerialize /\ [][NextSerialize]_vars

\* ------------------------------------------------- blocklist requests
\* one request that sets a user's blocklist: compute the plan, apply it
SetBlocklist(user_id, target) ==
    LET plan == update_user_blocklist(blocklist, config, user_id, target)
        after == ApplyPlanRows(blocklist, plan)
    IN /\ Len(after) <= MaxRows
       /\ blocklist' = after
       /\ last' = [op |-> "update_user_blocklist", user_id |-> user_id,
                   target |-> target,
                   previous |-> SelectSeq(blocklist, LAMBDA r : r.user_id = user_id),
                   to_add |-> plan.to_add,
                   to_remove |-> Rows(blocklist, plan.to_remove)]
       /\ UNCHANGED <<users, pending, files, config, posts>>

SeedBlocklist == \E u \in 1..Len(users) : SetBlocklist(u, NoneList)

ReconcileBlocklist == \E u \in 1..Len(users) : \E t \in Targets : SetBlocklist(u, t)

Configs ==
    {BaseConfig,
     [BaseConfig EXCEPT !.has_default_tag_blocklist = TRUE,
                        !.default_tag_blocklist = <<TagName(1), TagName(3), <<"tag", 0>>>>]}

\* two stored accounts, no blocklist entry yet
InitBlocklist ==
    /\ users = <<StoredAccount, OtherAccount>>
    /\ pending = NoUser
    /\ files = {}
    /\ blocklist = <<>>
    /\ config \in Configs
    /\ posts = <<>>
    /\ last = NoCall

NextBlocklist == SeedBlocklist \/ ReconcileBlocklist

SpecBlocklist == InitBlocklist /\ [][NextBlocklist]_vars

\* ------------------------------------------------------------ post listing
\* the blocklist read without the filter on the user
get_blocklist_tag_from_user_AllUsers(bl, user_id) ==
    SortedSeq({t \in TagIds : \E i \in 1..Len(bl) : bl[i].tag_id = t})

\* the tags whose id is among the tag ids of the user's entries
get_blocklist_tag_from_user(bl, user_id) ==
    SortedSeq({t \in TagIds :
                 \E i \in 1..Len(bl) : bl[i].user_id = user_id /\ bl[i].tag_id = t})

\* the tags hidden from the viewer: the user's own blocklist, or for an
\* anonymous viewer the default blocklist if the configuration says so
effective_blocklist(cfg, bl, viewer) ==
    IF viewer.rank # RANK_ANONYMOUS
    THEN Range(get_blocklist_tag_from_user(bl, viewer.user_id))
    ELSE IF cfg.default_tag_blocklist_for_anonymous /\ cfg.has_default_tag_blocklist
    THEN Range(get_tags_by_exact_names(cfg.default_tag_blocklist))
    ELSE {}

Reverse(seq) == [i \in 1..Len(seq) |-> seq[Len(seq) + 1 - i]]

\* api.post_api.get_posts with an empty query: newest first
get_posts(cfg, bl, ps, viewer) ==
    LET blocked == effective_blocklist(cfg, bl, viewer)
        kept == SelectSeq(Reverse(ps), LAMBDA post : post.tags \cap blocked = {})
    IN [total |-> Len(kept), results |-> [i \in 1..Len(kept) |-> kept[i].post_id]]

ListPosts(viewer) ==
    /\ viewer \in 0..Len(users)
    /\ LET auth_user == IF viewer = 0 THEN AnonymousUser ELSE users[viewer]
           page == get_posts(config, blocklist, posts, auth_user)
       IN last' = [op |-> "get_posts", viewer |-> auth_user, total |-> page.total,
                   results |-> page.results]
    /\ UNCHANGED <<users, pending, files, blocklist, config, posts>>

GetPosts == \E viewer \in 0..Len(users) : ListPosts(viewer)

Post(post_id, tags) == [post_id |-> post_id, tags |-> tags]

\* the posts of test_blocklist and test_blocklist_anonymous
TestPosts == <<Post(1, {1, 2}), Post(2, {1}), Post(3, {2}), Post(4, {3}), Post(5, {})>>

BlocklistOf(user_id, tags) ==
    LET ids == SortedSeq(tags)
    IN [i \in 1..Len(ids) |-> UserTagBlocklist(user_id, ids[i])]

\* two stored regular users with any blocklists, any default blocklist
InitPosts ==
    /\ users = <<[StoredAccount EXCEPT !.rank = "regular"], OtherAccount>>
    /\ pending = NoUser
    /\ files = {}
    /\ \E s1, s2 \in SUBSET TagIds : blocklist = BlocklistOf(1, s1) \o BlocklistOf(2, s2)
    /\ \E d \in SUBSET {1, 3} : \E anon \in BOOLEAN :
          config = [BaseConfig EXCEPT
                       !.has_default_tag_blocklist = (d # {}),
                       !.default_tag_blocklist =
                           [i \in 1..Len(SortedSeq(d)) |-> TagName(SortedSeq(d)[i])],
                       !.default_tag_blocklist_for_anonymous = anon]
    /\ posts = TestPosts
    /\ last = NoCall

NextPosts == GetPosts

SpecPosts == InitPosts /\ [][NextPosts]_vars

\* ------------------------------------------------------- blocklist claims
TagIdsOf(rows) == [i \in 1..Len(rows) |-> rows[i].tag_id]

IsReconcile == last.op = "update_user_blocklist" /\ ~last.target.is_none

ExampleConfig == [has_default_tag_blocklist |-> FALSE, default_tag_blocklist |-> <<>>]

\* persisted {A,B,C}, target {B,D}: additions {D}, removals {A,C};
\* persisted {}, explicit empty target: nothing to add, nothing to remove
ReconcileExamples ==
    /\ update_user_blocklist(
           <<UserTagBlocklist(1, 1), UserTagBlocklist(2, 4), UserTagBlocklist(1, 2),
             UserTagBlocklist(1, 3)>>,
           ExampleConfig, 1, SomeList(<<2, 4>>))
         = [to_add |-> <<UserTagBlocklist(1, 4)>>, to_remove |-> <<1, 4>>]
    /\ update_user_blocklist(<<>>, ExampleConfig, 1, SomeList(<<>>))
         = [to_add |-> <<>>, to_remove |-> <<>>]

\* C1: for an explicit target T and persisted entries P of the user, the tag ids
\* of the additions are T with the ids of P filtered out (as a set T - P, in the
\* order of T), every addition belongs to the user, and the removals are exactly
\* the entries of P whose tag id is not in T.
C1_AdditionsAndRemovals ==
    /\ ReconcileExamples
    /\ IsReconcile =>
         LET T == last.target.tags
             P == last.previous
         IN /\ TagIdsOf(last.to_add)
                 = SelectSeq(T, LAMBDA t : t \notin Range(TagIdsOf(P)))
            /\ Range(TagIdsOf(last.to_add)) = Range(T) \ Range(TagIdsOf(P))
            /\ \A i \in 1..Len(last.to_add) : last.to_add[i].user_id = last.user_id
            /\ last.to_remove = SelectSeq(P, LAMBDA r : r.tag_id \notin Range(T))

\* a reconciliation that keeps an entry, removes one and adds one
C1_Witness ==
    /\ IsReconcile
    /\ last.to_add # <<>>
    /\ last.to_remove # <<>>
    /\ Range(TagIdsOf(last.previous)) \cap Range(last.target.tags) # {}

\* C2: after a plan for an explicit target T has been applied, re-reading the
\* user's blocklist yields a set of tag ids equal to the set of T.
C2_RoundTrip ==
    IsReconcile =>
        Range(TagIdsOf(Rows(blocklist, get_blocklist_from_user(blocklist, last.user_id))))
            = Range(last.target.tags)

\* a reconciliation of a non-empty blocklist towards a disjoint non-empty target,
\* with the other user's entries present
C2_Witness ==
    /\ IsReconcile
    /\ last.previous # <<>>
    /\ last.target.tags # <<>>
    /\ Range(TagIdsOf(last.previous)) \cap Range(last.target.tags) = {}
    /\ \E i \in 1..Len(blocklist) : blocklist[i].user_id # last.user_id

\* C3: the persisted blocklist holds at most one entry per (user, tag) pair.
C3_UniquePerUserAndTag ==
    \A i, j \in 1..Len(blocklist) : i # j => blocklist[i] # blocklist[j]

\* --------------------------------------------------------- account claims
\* avatars/<lowercase name>.png
DerivedPath(name) == <<"avatars/">> \o lower(name) \o <<".png">>

OwnedByAnother(name, t) ==
    \E i \in 1..Len(users) : i # t /\ lower(users[i].name) = lower(name)

ValidName(name) ==
    /\ Len(name) \in 1..NameColumnSize
    /\ \A i \in 1..Len(name) : name[i] \in NameChars

\* C4: no two stored users have names equal case-insensitively; creating or
\* renaming to a name another user owns case-insensitively raises
\* UserAlreadyExistsError and leaves the name as it was; creating a user with a
\* valid name that no user owns case-insensitively succeeds.
C4_NamesUniqueCaseInsensitively ==
    /\ \A i, j \in 1..Len(users) :
          i # j => lower(users[i].name) # lower(users[j].name)
    /\ (last.op \in {"createUser", "setName"} /\ OwnedByAnother(last.arg, last.target))
          => /\ last.raised = "UserAlreadyExistsError"
             /\ last.after.name = last.before.name
    /\ (last.op = "createUser" /\ ValidName(last.arg) /\ ~OwnedByAnother(last.arg, 0))
          => /\ last.raised = ""
             /\ pending.name = last.arg

\* two stored users, and a rename of one to the other's name in another case
\* was refused
C4_Witness ==
    /\ Len(users) = 2
    /\ last.op = "setName"
    /\ last.target \in {1, 2}
    /\ last.raised = "UserAlreadyExistsError"
    /\ \E i \in 1..Len(users) :
          /\ i # last.target
          /\ lower(users[i].name) = lower(last.arg)
          /\ users[i].name # last.arg

IsSetter == last.op \in {"setName", "setPassword", "setEmail", "setRank", "setAvatar"}

\* the field the operation sets
FieldSetBy(op, user) ==
    CASE op = "setName" -> user.name
      [] op = "setPassword" ->
            <<user.password_salt, user.password_hash, user.password_revision>>
      [] op = "setEmail" -> user.email
      [] op = "setRank" -> user.rank
      [] op = "setAvatar" -> user.avatar_style

\* C8: whenever a setter raises, the field it sets has the value it had before
\* the call.
C8_ErrorLeavesFieldUnchanged ==
    (IsSetter /\ last.raised # "")
        => FieldSetBy(last.op, last.after) = FieldSetBy(last.op, last.before)

RenamedWithAvatarFile ==
    /\ last.op = "setName"
    /\ last.before.name # <<>>
    /\ DerivedPath(last.before.name) \in last.files_before

\* C9 as stated: after a successful rename the new derived path holds the file
\* and the old derived path holds none; a failed rename moves no file.
C9_OldPathGone ==
    RenamedWithAvatarFile =>
        IF last.raised = ""
        THEN last.after.name # last.before.name
                => /\ DerivedPath(last.after.name) \in files
                   /\ DerivedPath(last.before.name) \notin files
        ELSE files = last.files_before

\* C9: after a successful rename the new derived path holds the file, and the
\* old derived path holds none unless it is the new derived path (the names are
\* equal case-insensitively); a failed rename moves no file.
C9_AvatarFollowsRename ==
    RenamedWithAvatarFile =>
        IF last.raised = ""
        THEN /\ DerivedPath(last.after.name) \in files
             /\ DerivedPath(last.before.name) # DerivedPath(last.after.name)
                    => DerivedPath(last.before.name) \notin files
             /\ files = (last.files_before \ {DerivedPath(last.before.name)})
                            \cup {DerivedPath(last.after.name)}
        ELSE files = last.files_before

\* a stored user with an avatar file was renamed to a name of another path
C9_Witness ==
    /\ RenamedWithAvatarFile
    /\ last.target >= 1
    /\ last.raised = ""
    /\ DerivedPath(last.before.name) # DerivedPath(last.after.name)
    /\ DerivedPath(last.after.name) \in files

Assignable == {"regular", "power", "moderator", "administrator"}

RankOrder == <<"anonymous", "nobody", "regular", "power", "moderator", "administrator">>

Below(r1, r2) ==
    \E i, j \in 1..Len(RankOrder) : i < j /\ RankOrder[i] = r1 /\ RankOrder[j] = r2

\* the assignable rank a rank string names, "" if none
RequestedRank(arg) ==
    LET words == SelectSeq(arg, LAMBDA w : w \notin Whitespace)
    IN IF Len(words) = 1 /\ words[1] \in Assignable THEN words[1] ELSE ""

\* C5: with at least one account, assigning a rank strictly above the acting
\* user's raises AuthError and leaves the rank as it was; with no account, any
\* assignable rank is set.
C5_NoRankAboveOwn ==
    (last.op = "setRank" /\ RequestedRank(last.arg) # "") =>
        /\ (last.count > 0 /\ Below(last.actor.rank, RequestedRank(last.arg)))
              => /\ last.raised = "AuthError"
                 /\ last.after.rank = last.before.rank
        /\ last.count = 0
              => /\ last.raised = ""
                 /\ last.after.rank = RequestedRank(last.arg)

\* a stored user below administrator was refused when assigning administrator
C5_Witness ==
    /\ last.op = "setRank"
    /\ last.count > 0
    /\ last.actor.user_id >= 1
    /\ RequestedRank(last.arg) = "administrator"
    /\ last.raised = "AuthError"

\* C6: an account created while no account exists gets the administrator
\* rank, whatever the configured default rank; one created while an account
\* exists gets the configured default rank.
C6_FirstAccountIsAdministrator ==
    (last.op = "createUser" /\ last.raised = "") =>
        /\ pending.rank = IF last.count = 0 THEN "administrator" ELSE config.default_rank
        /\ last.after.rank = pending.rank

\* the second account was created with a default rank that is not administrator
C6_Witness ==
    /\ last.op = "createUser"
    /\ last.raised = ""
    /\ last.count = 1
    /\ config.default_rank = "moderator"
    /\ pending.rank = "moderator"
    /\ users[1].name # pending.name

\* ---------------------------------------------------- serialization claims
HoldsEmailPrivilege(user) == ~Below(user.rank, config.privileges["users:edit:any:email"])

EmailHidden ==
    /\ last.viewer.user_id # last.subject.user_id
    /\ ~HoldsEmailPrivilege(last.viewer)
    /\ ~last.force

\* C7: the serialized email is the boolean false when the viewer is not the
\* subject, lacks the privilege and forceShow is unset, and the stored email
\* (None when none is stored) in every other case; for such a viewer the output
\* is the same whatever email is stored.
C7_EmailVisibility ==
    last.op = "serialize" =>
        /\ last.email = IF EmailHidden THEN BoolVal(FALSE) ELSE last.subject.email
        /\ ~EmailHidden => last.email \in StoredEmails
        /\ EmailHidden =>
              \A e \in StoredEmails :
                  serialize_email(config, [last.subject EXCEPT !.email = e],
                                  last.viewer, last.force) = last.email

\* a stored user below the privilege looked at another user who has an email
C7_Witness ==
    /\ last.op = "serialize"
    /\ EmailHidden
    /\ last.viewer.user_id >= 1
    /\ last.subject.email # NoneVal
    /\ last.email = BoolVal(FALSE)

\* ------------------------------------------------------ post listing claims
EffectiveBlocklist ==
    IF last.viewer.rank # "anonymous"
    THEN {blocklist[i].tag_id :
            i \in {k \in 1..Len(blocklist) : blocklist[k].user_id = last.viewer.user_id}}
    ELSE IF config.default_tag_blocklist_for_anonymous
    THEN {t \in TagIds : TagName(t) \in Range(config.default_tag_blocklist)}
    ELSE {}

Listed ==
    {posts[i].post_id : i \in {k \in 1..Len(posts) : posts[k].tags \cap EffectiveBlocklist = {}}}

TestConfig(names, anon) ==
    [BaseConfig EXCEPT !.has_default_tag_blocklist = (names # <<>>),
                       !.default_tag_blocklist = names,
                       !.default_tag_blocklist_for_anonymous = anon]

TestUser == [StoredAccount EXCEPT !.rank = "regular"]

\* what test_blocklist, test_blocklist_no_anonymous and test_blocklist_anonymous expect
ListingTests ==
    /\ get_posts(TestConfig(<<>>, FALSE), <<UserTagBlocklist(1, 1)>>, TestPosts, TestUser)
         = [total |-> 3, results |-> <<5, 4, 3>>]
    /\ get_posts(TestConfig(<<TagName(1)>>, FALSE), <<>>,
                 <<Post(1, {1}), Post(2, {1}), Post(3, {})>>, AnonymousUser)
         = [total |-> 3, results |-> <<3, 2, 1>>]
    /\ get_posts(TestConfig(<<TagName(3)>>, TRUE), <<>>, TestPosts, AnonymousUser)
         = [total |-> 4, results |-> <<5, 3, 2, 1>>]

\* C10: a listing holds exactly the posts that carry no tag of the viewer's
\* effective blocklist, each once, and the total counts them: the user's own
\* blocklist for a registered user; for an anonymous viewer the default blocklist
\* if default_tag_blocklist_for_anonymous is set, the empty one if not.
C10_ListingHidesBlockedPosts ==
    /\ ListingTests
    /\ last.op = "get_posts" =>
          /\ Range(last.results) = Listed
          /\ Len(last.results) = Cardinality(Listed)
          /\ last.total = Cardinality(Listed)

\* a registered user whose blocklist hides some posts and differs from the
\* other user's
C10_Witness ==
    /\ last.op = "get_posts"
    /\ last.viewer.user_id >= 1
    /\ last.total \in 1..(Len(posts) - 1)
    /\ \E i \in 1..Len(blocklist) :
          /\ blocklist[i].user_id # last.viewer.user_id
          /\ blocklist[i].tag_id \notin EffectiveBlocklist

====
